---- MODULE Spec2Model ----
(***************************************************************************)
(* Model of the knowledge-base builder: the FAISSVectorStore index         *)
(* lifecycle (build_index, save_index, load_index, similarity_search,      *)
(* get_index_stats) and the KnowledgeBaseBuilder orchestrator on top of it. *)
(***************************************************************************)
EXTENDS Integers, Sequences, FiniteSets, TLC

\* ------------------------------------------------------------------ bounds
\* Largest number of rows / metadata entries handed to build_index.
MaxVectors == 2
\* Largest explicit result count k handed to similarity_search.
MaxK == 2
\* Largest number of entries os.listdir returns for the ingestion directory.
MaxFiles == 3
\* Largest number of Document Records handed to split_documents.
MaxDocs == 3
\* Largest number of passages the splitter cuts one record into.
MaxChunks == 2
\* Longest text handed to the length function.
MaxLen == 3
\* Largest number of texts handed to embed_texts, and largest batch size.
MaxTexts == 3
MaxBatch == 2

\* ------------------------------------------------------- program constants
\* config 'faiss.search_k' default.
search_k == 5
\* config 'system.index_name' default.
index_name == "default"

\* --------------------------------------------------------------- domains
\* Passage batches a caller can embed; every batch has one embedding dimension.
Batches == {"A", "B"}
DimOf(b) == IF b = "A" THEN 2 ELSE 3
\* The value datetime.now().isoformat() yields while build_index stamps its entries.
Times == {"now"}
\* Name arguments that fall back to the configured index name: None and "".
DefaultNameArgs == {"None", ""}
\* Name arguments including an explicit name.
NameArgs == {"None", "", "kb"}
FileNames == {"default", "kb"}
\* Accelerator situation met by one call: no device, offload works, offload raises.
GpuEnv == {"none", "ok", "fail"}
\* Query vectors: a dimension and a direction deciding the inner-product order.
Queries == {[dim |-> 2, sign |-> 1], [dim |-> 2, sign |-> -1],
            [dim |-> 3, sign |-> 1], [dim |-> 3, sign |-> -1]}
\* Result counts: k omitted (None), or an explicit k >= 0.
NoK == [given |-> FALSE, val |-> 0]
KArgs == {NoK} \cup {[given |-> TRUE, val |-> v] : v \in 0..MaxK}

VARIABLES index, metadata, disk, lastOp, snap, call, obs, fn

vars == <<index, metadata, disk, lastOp, snap, call, obs, fn>>

\* ------------------------------------------------------------ data values
\* self.index = None
NoIndex == [present |-> FALSE, vecs |-> <<>>, d |-> 0, device |-> "cpu"]
\* faiss.IndexFlatIP(dimension), possibly moved to the accelerator.
NewIndex(dim, dev) == [present |-> TRUE, vecs |-> <<>>, d |-> dim, device |-> dev]

\* Row i of the embedding matrix of batch b: the vector of passage (b, i).
Embeddings(b, n) == [i \in 1..n |-> [src |-> b, pos |-> i]]
\* Entry i of the metadata list of batch b, before build_index stamps it.
Metadatas(b, m) == [i \in 1..m |-> [src |-> b, pos |-> i, indexed_at |-> "unset"]]

AbsentIndexFile == [st |-> "absent", vecs |-> <<>>, d |-> 0]
CorruptIndexFile == [st |-> "corrupt", vecs |-> <<>>, d |-> 0]
AbsentMetaFile == [st |-> "absent", metas |-> <<>>]
CorruptMetaFile == [st |-> "corrupt", metas |-> <<>>]

NoResults == <<>>
NoStats == [status |-> "none", total_vectors |-> 0, dimension |-> 0, metadata_count |-> 0]
NoSnap == [valid |-> FALSE, name |-> "", index |-> NoIndex, metadata |-> <<>>]

\* No orchestrator call made yet.
NoCall ==
    [op |-> "init", rebuild |-> FALSE, k |-> NoK, out |-> "returned", exc |-> "none",
     success |-> FALSE, message |-> "", keys |-> {}, stats |-> NoStats,
     results |-> NoResults, stages |-> <<>>, artifact |-> "absent", resident |-> FALSE,
     wrote |-> FALSE, met |-> [discover |-> "-", split |-> "-", embed |-> "-"],
     prev |-> [reuse |-> FALSE, stats |-> NoStats]]

\* What is known of a store instance beyond its fields: whether a build_index or
\* load_index has returned True on it, and what its last call met (accelerator,
\* failing statement).
NoObs == [ready |-> FALSE, gpu |-> "none", fail |-> "none"]

\* No helper function applied yet.
NoFn == [op |-> "none"]

Op(op, name, n, m, k, ret, results, stats) ==
    [op |-> op, name |-> name, n |-> n, m |-> m, k |-> k, ret |-> ret,
     results |-> results, stats |-> stats]

\* ------------------------------------------------------------- helpers
\* save_index: name = name or self.index_name
SaveName(name) == IF name = "None" \/ name = "" THEN index_name ELSE name

\* A load_index that reads the configured index whatever name it is given.
LoadNameConfigured(name) == index_name

\* load_index: name = name or self.index_name
LoadName(name) == IF name = "None" \/ name = "" THEN index_name ELSE name

\* Outcome of the best-effort offload block.
Offload(gpu) == IF gpu = "ok" THEN "gpu" ELSE "cpu"

\* for meta in self.metadata: meta['indexed_at'] = datetime.now().isoformat()
Stamp(metas, ts) == [i \in 1..Len(metas) |-> [metas[i] EXCEPT !.indexed_at = ts]]

\* faiss.write_index of the (device-independent) index.
WriteIndex(ix) == [st |-> "data", vecs |-> ix.vecs, d |-> ix.d]
\* faiss.read_index: always a general-purpose-device index.
ReadIndex(f) == [present |-> TRUE, vecs |-> f.vecs, d |-> f.d, device |-> "cpu"]
\* pickle.dump / pickle.load of the metadata list.
DumpMeta(metas) == [st |-> "data", metas |-> metas]
LoadMeta(f) == f.metas

\* os.makedirs(self.index_path, exist_ok=True) on a directory that does not exist yet.
EmptyDir == [nm \in FileNames |-> [idx |-> AbsentIndexFile, meta |-> AbsentMetaFile]]

Init ==
    /\ index = NoIndex
    /\ metadata = <<>>
    /\ disk = EmptyDir
    /\ lastOp = Op("init", "", 0, 0, NoK, "None", NoResults, NoStats)
    /\ snap = NoSnap
    /\ call = NoCall
    /\ obs = NoObs
    /\ fn = NoFn

\* The store as one value: its two fields and the index directory.
Store == [index |-> index, metadata |-> metadata, disk |-> disk]

\* A store operation's outcome: the store afterwards and what the call returned
\* ("True", "False") or raised (the exception's name).
Outcome(ix, metas, d, ret) == [index |-> ix, metadata |-> metas, disk |-> d, ret |-> ret]

\* FAISSVectorStore.build_index(embeddings of batch b with n rows, m metadatas).
\* fail names the statement of the try block that raises: none, the creation of
\* the index, or the add of the vectors.
build_index(s, b, n, m, gpu, ts, fail) ==
    IF n = 0
    THEN Outcome(s.index, s.metadata, s.disk, "False")
    ELSE IF fail = "create"
    THEN Outcome(s.index, s.metadata, s.disk, "IndexBuildError")
    ELSE IF fail = "add"
    THEN Outcome(NewIndex(DimOf(b), Offload(gpu)), s.metadata, s.disk, "IndexBuildError")
    ELSE Outcome([NewIndex(DimOf(b), Offload(gpu)) EXCEPT !.vecs = Embeddings(b, n)],
                 Stamp(Metadatas(b, m), ts), s.disk, "True")

BuildFailures == {"none", "create", "add"}

\* A save_index whose metadata write fails silently.
SaveIgnoresMetaFailure(s, name, fail) ==
    IF ~s.index.present
    THEN Outcome(s.index, s.metadata, s.disk, "False")
    ELSE IF fail \in {"index_refused", "index_cut"}
    THEN Outcome(s.index, s.metadata, s.disk, "IndexSaveError")
    ELSE IF fail \in {"meta_refused", "meta_cut"}
    THEN Outcome(s.index, s.metadata,
                 [s.disk EXCEPT ![SaveName(name)].idx = WriteIndex(s.index)], "True")
    ELSE Outcome(s.index, s.metadata,
                 [s.disk EXCEPT ![SaveName(name)] = [idx |-> WriteIndex(s.index),
                                                     meta |-> DumpMeta(s.metadata)]],
                 "True")

\* FAISSVectorStore.save_index(name).  fail names the write that raises and what
\* it leaves behind: the file untouched (open refused) or truncated (write cut short).
save_index(s, name, fail) ==
    LET nm == SaveName(name) IN
    IF ~s.index.present
    THEN Outcome(s.index, s.metadata, s.disk, "False")
    ELSE IF fail = "index_refused"
    THEN Outcome(s.index, s.metadata, s.disk, "IndexSaveError")
    ELSE IF fail = "index_cut"
    THEN Outcome(s.index, s.metadata, [s.disk EXCEPT ![nm].idx = CorruptIndexFile],
                 "IndexSaveError")
    ELSE IF fail = "meta_refused"
    THEN Outcome(s.index, s.metadata, [s.disk EXCEPT ![nm].idx = WriteIndex(s.index)],
                 "IndexSaveError")
    ELSE IF fail = "meta_cut"
    THEN Outcome(s.index, s.metadata,
                 [s.disk EXCEPT ![nm] = [idx |-> WriteIndex(s.index), meta |-> CorruptMetaFile]],
                 "IndexSaveError")
    ELSE Outcome(s.index, s.metadata,
                 [s.disk EXCEPT ![nm] = [idx |-> WriteIndex(s.index),
                                         meta |-> DumpMeta(s.metadata)]],
                 "True")

SaveFailures == {"none", "index_refused", "index_cut", "meta_refused", "meta_cut"}

\* A guard that gives up only when both files are gone.
ArtifactMissingBoth(d, nm) == d[nm].idx.st = "absent" /\ d[nm].meta.st = "absent"

\* if not os.path.exists(index_file) or not os.path.exists(meta_file)
ArtifactMissing(d, nm) == d[nm].idx.st = "absent" \/ d[nm].meta.st = "absent"

\* A load_index for which a failing offload is a failing load.
LoadNeedsAccelerator(s, name, gpu) ==
    IF ArtifactMissing(s.disk, LoadName(name))
    THEN Outcome(s.index, s.metadata, s.disk, "False")
    ELSE IF s.disk[LoadName(name)].idx.st = "corrupt"
    THEN Outcome(s.index, s.metadata, s.disk, "IndexLoadError")
    ELSE IF gpu = "fail" \/ s.disk[LoadName(name)].meta.st = "corrupt"
    THEN Outcome(ReadIndex(s.disk[LoadName(name)].idx), s.metadata, s.disk, "IndexLoadError")
    ELSE Outcome([ReadIndex(s.disk[LoadName(name)].idx) EXCEPT !.device = Offload(gpu)],
                 LoadMeta(s.disk[LoadName(name)].meta), s.disk, "True")

\* FAISSVectorStore.load_index(name)
load_index(s, name, gpu) ==
    LET nm == LoadName(name) IN
    IF ArtifactMissing(s.disk, nm)
    THEN Outcome(s.index, s.metadata, s.disk, "False")
    ELSE IF s.disk[nm].idx.st = "corrupt"
    THEN Outcome(s.index, s.metadata, s.disk, "IndexLoadError")
    ELSE IF s.disk[nm].meta.st = "corrupt"
    THEN Outcome([ReadIndex(s.disk[nm].idx) EXCEPT !.device = Offload(gpu)],
                 s.metadata, s.disk, "IndexLoadError")
    ELSE Outcome([ReadIndex(s.disk[nm].idx) EXCEPT !.device = Offload(gpu)],
                 LoadMeta(s.disk[nm].meta), s.disk, "True")

\* Inner product of the query with a stored vector (distinct per stored row).
Score(q, v) == q.sign * v.pos

\* 0-based row numbers of vecs, best score first.
RECURSIVE Ranked(_, _, _)
Ranked(q, vecs, S) ==
    IF S = {} THEN <<>>
    ELSE LET best == CHOOSE i \in S : \A j \in S : Score(q, vecs[j + 1]) <= Score(q, vecs[i + 1])
         IN  <<best>> \o Ranked(q, vecs, S \ {best})

\* self.index.search(query, k): k row numbers, -1 where the index has no more rows.
FaissSearch(ix, q, k) ==
    LET r == Ranked(q, ix.vecs, 0..(Len(ix.vecs) - 1))
    IN  [i \in 1..k |-> IF i <= Len(r) THEN r[i] ELSE -1]

\* k = k or self.search_k
EffectiveK(k) == IF k.given /\ k.val # 0 THEN k.val ELSE search_k

\* if idx != -1 and idx < len(self.metadata)
Kept(idx, metas) == idx # -1 /\ idx < Len(metas)

\* The result-building loop over indices[0]; row is the position the result came from.
RECURSIVE BuildResults(_, _, _, _, _)
BuildResults(indices, i, q, vecs, metas) ==
    IF i > Len(indices) THEN <<>>
    ELSE (IF Kept(indices[i], metas)
          THEN <<[metadata |-> metas[indices[i] + 1],
                  score |-> Score(q, vecs[indices[i] + 1]),
                  rank |-> i, row |-> indices[i]]>>
          ELSE <<>>) \o BuildResults(indices, i + 1, q, vecs, metas)

\* FAISSVectorStore.similarity_search(query_vector, k): what it returns or raises.
similarity_search(s, q, k) ==
    IF ~s.index.present
    THEN [ret |-> "ValueError", results |-> NoResults]
    ELSE IF q.dim # s.index.d
    THEN [ret |-> "AssertionError", results |-> NoResults]
    ELSE [ret |-> "results",
          results |-> BuildResults(FaissSearch(s.index, q, EffectiveK(k)), 1, q,
                                   s.index.vecs, s.metadata)]

\* Stats that report a ready index whether or not one is present.
StatsAlwaysReady(s) ==
    [status |-> "ready", total_vectors |-> Len(s.index.vecs), dimension |-> s.index.d,
     metadata_count |-> Len(s.metadata)]

\* FAISSVectorStore.get_index_stats()
get_index_stats(s) ==
    IF ~s.index.present
    THEN [status |-> "uninitialized", total_vectors |-> 0, dimension |-> 0, metadata_count |-> 0]
    ELSE [status |-> "ready", total_vectors |-> Len(s.index.vecs), dimension |-> s.index.d,
          metadata_count |-> Len(s.metadata)]

\* The store after a call.
Becomes(r) ==
    /\ index' = r.index
    /\ metadata' = r.metadata
    /\ disk' = r.disk

\* ---------------------------------------------------------------------------
\* Calls on one FAISSVectorStore, default index name.
\* ---------------------------------------------------------------------------
BuildIndex ==
    \E b \in Batches, n \in 0..MaxVectors, m \in 0..MaxVectors, gpu \in GpuEnv,
       ts \in Times, fail \in BuildFailures :
        \E r \in {build_index(Store, b, n, m, gpu, ts, fail)} :
        /\ Becomes(r)
        /\ lastOp' = Op("build_index", "", n, m, NoK, r.ret, NoResults, NoStats)
        /\ UNCHANGED <<snap, call, obs, fn>>

SaveIndex ==
    \E name \in DefaultNameArgs, fail \in SaveFailures :
        \E r \in {save_index(Store, name, fail)} :
        /\ Becomes(r)
        /\ lastOp' = Op("save_index", name, 0, 0, NoK, r.ret, NoResults, NoStats)
        /\ UNCHANGED <<snap, call, obs, fn>>

LoadIndex ==
    \E name \in DefaultNameArgs, gpu \in GpuEnv :
        \E r \in {load_index(Store, name, gpu)} :
        /\ Becomes(r)
        /\ lastOp' = Op("load_index", name, 0, 0, NoK, r.ret, NoResults, NoStats)
        /\ UNCHANGED <<snap, call, obs, fn>>

SimilaritySearch ==
    \E q \in Queries, k \in KArgs :
        \E r \in {similarity_search(Store, q, k)} :
        /\ lastOp' = Op("similarity_search", "", 0, 0, k, r.ret, r.results, NoStats)
        /\ UNCHANGED <<index, metadata, disk, snap, call, obs, fn>>

GetIndexStats ==
    /\ lastOp' = Op("get_index_stats", "", 0, 0, NoK, "stats", NoResults, get_index_stats(Store))
    /\ UNCHANGED <<index, metadata, disk, snap, call, obs, fn>>

\* FAISSVectorStore.__init__ over the same index directory: a fresh instance
\* replaces the resident one, the files stay.
NewStore ==
    /\ index' = NoIndex
    /\ metadata' = <<>>
    /\ lastOp' = Op("init", "", 0, 0, NoK, "None", NoResults, NoStats)
    /\ UNCHANGED <<disk, snap, call, obs, fn>>

Next ==
    \/ BuildIndex
    \/ SaveIndex
    \/ LoadIndex
    \/ SimilaritySearch
    \/ GetIndexStats
    \/ NewStore

Spec == Init /\ [][Next]_vars

\* ---------------------------------------------------------------------------
\* Named-artifact harness: explicit names, a record of the last successful save
\* still on disk, and an index directory that exists before the store does.
\* ---------------------------------------------------------------------------
\* os.makedirs(..., exist_ok=True) on an existing directory: it is taken as found,
\* here empty or holding a metadata file whose index file has been removed.
StrayMetaDir ==
    [EmptyDir EXCEPT ![index_name].meta = DumpMeta(Stamp(Metadatas("A", 1), "now"))]

InitNames ==
    /\ index = NoIndex
    /\ metadata = <<>>
    /\ disk \in {EmptyDir, StrayMetaDir}
    /\ lastOp = Op("init", "", 0, 0, NoK, "None", NoResults, NoStats)
    /\ snap = NoSnap
    /\ call = NoCall
    /\ obs = NoObs
    /\ fn = NoFn

\* The harness saves and reloads one batch under several names.
NamedBatches == {"A"}

BuildIndexNamed ==
    \E b \in NamedBatches, n \in 1..MaxVectors, gpu \in GpuEnv :
        \E r \in {build_index(Store, b, n, n, gpu, "now", "none")} :
        /\ Becomes(r)
        /\ lastOp' = Op("build_index", "", n, n, NoK, r.ret, NoResults, NoStats)
        /\ UNCHANGED <<snap, call, obs, fn>>

SaveIndexNamed ==
    \E name \in NameArgs, fail \in SaveFailures :
        \E r \in {save_index(Store, name, fail)} :
        /\ Becomes(r)
        /\ lastOp' = Op("save_index", name, 0, 0, NoK, r.ret, NoResults, NoStats)
        /\ snap' = IF r.ret = "True"
                   THEN [valid |-> TRUE, name |-> name, index |-> index,
                         metadata |-> metadata]
                   ELSE IF snap.valid /\ SaveName(snap.name) = SaveName(name) /\ r.disk # disk
                   THEN NoSnap
                   ELSE snap
        /\ UNCHANGED <<call, obs, fn>>

LoadIndexNamed ==
    \E name \in NameArgs, gpu \in GpuEnv :
        \E r \in {load_index(Store, name, gpu)} :
        /\ Becomes(r)
        /\ lastOp' = Op("load_index", name, 0, 0, NoK, r.ret, NoResults, NoStats)
        /\ UNCHANGED <<snap, call, obs, fn>>

NextNames ==
    \/ BuildIndexNamed
    \/ SaveIndexNamed
    \/ LoadIndexNamed
    \/ NewStore

SpecNames == InitNames /\ [][NextNames]_vars

\* ---------------------------------------------------------------------------
\* Lifecycle harness: one FAISSVectorStore under the default name, with what each
\* call met kept in obs.
\* ---------------------------------------------------------------------------
\* Query vectors of the dimension the embedding model gives the passages.
LifeQueries == {q \in Queries : q.dim = DimOf("A")}

BuildIndexLife ==
    \E n \in 0..MaxVectors, gpu \in GpuEnv, fail \in BuildFailures :
        \E r \in {build_index(Store, "A", n, n, gpu, "now", fail)} :
        /\ Becomes(r)
        /\ lastOp' = Op("build_index", "", n, n, NoK, r.ret, NoResults, NoStats)
        /\ obs' = [ready |-> obs.ready \/ r.ret = "True", gpu |-> gpu, fail |-> fail]
        /\ UNCHANGED <<snap, call, fn>>

SaveIndexLife ==
    \E name \in DefaultNameArgs, fail \in SaveFailures :
        \E r \in {save_index(Store, name, fail)} :
        /\ Becomes(r)
        /\ lastOp' = Op("save_index", name, 0, 0, NoK, r.ret, NoResults, NoStats)
        /\ obs' = [ready |-> obs.ready, gpu |-> "none", fail |-> fail]
        /\ UNCHANGED <<snap, call, fn>>

LoadIndexLife ==
    \E name \in DefaultNameArgs, gpu \in GpuEnv :
        \E r \in {load_index(Store, name, gpu)} :
        /\ Becomes(r)
        /\ lastOp' = Op("load_index", name, 0, 0, NoK, r.ret, NoResults, NoStats)
        /\ obs' = [ready |-> obs.ready \/ r.ret = "True", gpu |-> gpu, fail |-> "none"]
        /\ UNCHANGED <<snap, call, fn>>

SimilaritySearchLife ==
    \E q \in LifeQueries :
        \E r \in {similarity_search(Store, q, NoK)} :
        /\ lastOp' = Op("similarity_search", "", 0, 0, NoK, r.ret, r.results, NoStats)
        /\ obs' = [ready |-> obs.ready, gpu |-> "none", fail |-> "none"]
        /\ UNCHANGED <<index, metadata, disk, snap, call, fn>>

GetIndexStatsLife ==
    /\ lastOp' = Op("get_index_stats", "", 0, 0, NoK, "stats", NoResults,
                    get_index_stats(Store))
    /\ obs' = [ready |-> obs.ready, gpu |-> "none", fail |-> "none"]
    /\ UNCHANGED <<index, metadata, disk, snap, call, fn>>

\* A fresh instance over the same index directory.
NewStoreLife ==
    /\ index' = NoIndex
    /\ metadata' = <<>>
    /\ lastOp' = Op("init", "", 0, 0, NoK, "None", NoResults, NoStats)
    /\ obs' = NoObs
    /\ UNCHANGED <<disk, snap, call, fn>>

NextLife ==
    \/ BuildIndexLife
    \/ SaveIndexLife
    \/ LoadIndexLife
    \/ SimilaritySearchLife
    \/ GetIndexStatsLife
    \/ NewStoreLife

SpecLife == Init /\ [][NextLife]_vars

\* ---------------------------------------------------------------------------
\* Ingestion helpers: KnowledgeBaseBuilder._load_all_documents,
\* ChineseSemanticSplitter.split_documents and _chinese_aware_length, each
\* applied once to an input of bounded size; fn holds the input and, once the
\* function has been applied (done), what it gave.
\* ---------------------------------------------------------------------------
\* Sequences over S of length at most n.
SeqsUpTo(S, n) == UNION {[1..k -> S] : k \in 0..n}

\* What a directory entry is to _load_all_documents:
\*   unsupported  extension not in supported_extensions
\*   unstatable   supported extension, os.path.getsize raises (entry gone, dangling link)
\*   big          supported extension, larger than max_file_size_mb
\*   unloadable   supported and small enough, load_document raises
\*   page1, page2 supported and small enough, load_document returns 1 or 2 records
FileKinds == {"unsupported", "unstatable", "big", "unloadable", "page1", "page2"}
Listings == SeqsUpTo(FileKinds, MaxFiles)

\* load_document(file_path) of entry i: its records, in order.
Records(i, kind) ==
    IF kind = "page1" THEN <<[file |-> i, part |-> 1]>>
    ELSE IF kind = "page2" THEN <<[file |-> i, part |-> 1], [file |-> i, part |-> 2]>>
    ELSE <<>>

\* The loop of _load_all_documents from entry i on, all_documents being acc.
RECURSIVE LoadFrom(_, _, _)
LoadFrom(listing, i, acc) ==
    IF i > Len(listing) THEN [ret |-> "returned", docs |-> acc]
    ELSE IF listing[i] = "unsupported" THEN LoadFrom(listing, i + 1, acc)
    ELSE IF listing[i] = "unstatable" THEN [ret |-> "OSError", docs |-> <<>>]
    ELSE IF listing[i] = "big" THEN LoadFrom(listing, i + 1, acc)
    ELSE IF listing[i] = "unloadable" THEN LoadFrom(listing, i + 1, acc)
    ELSE LoadFrom(listing, i + 1, acc \o Records(i, listing[i]))

\* KnowledgeBaseBuilder._load_all_documents()
load_all_documents(exists, listing) ==
    IF ~exists THEN [ret |-> "returned", docs |-> <<>>]
    ELSE LoadFrom(listing, 1, <<>>)

LoadInputs ==
    {[op |-> "load_all_documents", done |-> FALSE, exists |-> e, listing |-> l,
      ret |-> "", docs |-> <<>>] : e \in BOOLEAN, l \in Listings}

LoadAllDocuments ==
    /\ fn.op = "load_all_documents" /\ ~fn.done
    /\ \E r \in {load_all_documents(fn.exists, fn.listing)} :
          fn' = [fn EXCEPT !.done = TRUE, !.ret = r.ret, !.docs = r.docs]
    /\ UNCHANGED <<index, metadata, disk, lastOp, snap, call, obs>>

\* Document Records as split_documents sees them: for each record, the number of
\* passages the RecursiveCharacterTextSplitter cuts its text into.
DocBatches == SeqsUpTo(0..MaxChunks, MaxDocs)

\* self.splitter.split_documents(documents): the passages of each record in
\* turn, each with a copy of its record's metadata (parent) and its position
\* within the record (piece).
RECURSIVE SplitterChunks(_, _)
SplitterChunks(documents, d) ==
    IF d > Len(documents) THEN <<>>
    ELSE [j \in 1..documents[d] |-> [parent |-> d, piece |-> j]]
         \o SplitterChunks(documents, d + 1)

\* ChineseSemanticSplitter.split_documents(documents)
split_documents(documents) ==
    IF documents = <<>> THEN <<>>
    ELSE LET chunks == SplitterChunks(documents, 1)
         IN  [i \in 1..Len(chunks) |->
                 [parent |-> chunks[i].parent, piece |-> chunks[i].piece,
                  chunk_index |-> i - 1, total_chunks |-> Len(chunks)]]

SplitInputs ==
    {[op |-> "split_documents", done |-> FALSE, documents |-> d, chunks |-> <<>>] :
        d \in DocBatches}

SplitDocuments ==
    /\ fn.op = "split_documents" /\ ~fn.done
    /\ fn' = [fn EXCEPT !.done = TRUE, !.chunks = split_documents(fn.documents)]
    /\ UNCHANGED <<index, metadata, disk, lastOp, snap, call, obs>>

\* Characters by the class the three regular expressions put them in.
CharClasses == {"cjk", "latin", "space", "other"}
Texts == SeqsUpTo(CharClasses, MaxLen)

\* len(re.findall(pattern of class c, text))
Count(text, c) == Cardinality({i \in 1..Len(text) : text[i] = c})

\* A length that counts every two letters as one and drops an odd one.
WeightedLengthFloor(text) ==
    IF text = <<>> THEN 0
    ELSE Count(text, "cjk") + Count(text, "other") + (Count(text, "latin") \div 2)

\* A length whose third pattern does not leave whitespace out.
WeightedLengthCountsSpace(text) ==
    IF text = <<>> THEN 0
    ELSE Count(text, "cjk") + Count(text, "other") + Count(text, "space")
         + ((Count(text, "latin") \div 2) + (Count(text, "latin") % 2))

\* ChineseSemanticSplitter._chinese_aware_length(text)
chinese_aware_length(text) ==
    IF text = <<>> THEN 0
    ELSE Count(text, "cjk") + Count(text, "other")
         + ((Count(text, "latin") \div 2) + (Count(text, "latin") % 2))

LengthInputs ==
    {[op |-> "weighted_length", done |-> FALSE, a |-> a, b |-> b,
      la |-> 0, lb |-> 0, lab |-> 0] : a \in Texts, b \in Texts}

\* The length function applied to a, to b and to their concatenation.
WeightedLength ==
    /\ fn.op = "weighted_length" /\ ~fn.done
    /\ fn' = [fn EXCEPT !.done = TRUE,
                        !.la = chinese_aware_length(fn.a),
                        !.lb = chinese_aware_length(fn.b),
                        !.lab = chinese_aware_length(fn.a \o fn.b)]
    /\ UNCHANGED <<index, metadata, disk, lastOp, snap, call, obs>>

\* Passage texts handed to the embedding model.
PassageTexts == SeqsUpTo({"p", "q"}, MaxTexts)

\* Row of self.model.encode for one text.
Encode(t) == [of |-> t]

\* The loop of embed_texts from offset i (0-based) on: embeddings holds the rows
\* of the batches appended so far, order the offsets visited.  failing is the
\* number of the batch whose encode raises (0: none does).
RECURSIVE EncodeFrom(_, _, _, _, _, _)
EncodeFrom(texts, bs, i, failing, embeddings, order) ==
    IF i >= Len(texts)
    THEN [ret |-> "returned", rows |-> embeddings, order |-> order]
    ELSE LET last == IF i + bs < Len(texts) THEN i + bs ELSE Len(texts)
             batch == SubSeq(texts, i + 1, last)
         IN  IF failing = (i \div bs) + 1
             THEN [ret |-> "VectorizationError", rows |-> <<>>, order |-> order \o <<i>>]
             ELSE EncodeFrom(texts, bs, i + bs, failing,
                             embeddings \o [j \in 1..Len(batch) |-> Encode(batch[j])],
                             order \o <<i>>)

\* An embed_texts that hands back the rows of the batches before the failing one.
EmbedKeepsPartial(texts, bs, init, failing) ==
    IF texts = <<>> THEN [ret |-> "returned", rows |-> <<>>, order |-> <<>>]
    ELSE IF init = "raise" THEN [ret |-> "VectorizationError", rows |-> <<>>, order |-> <<>>]
    ELSE IF failing \in 1..(((Len(texts) - 1) \div bs) + 1)
    THEN [ret |-> "returned",
          rows |-> EncodeFrom(SubSeq(texts, 1, (failing - 1) * bs), bs, 0, 0, <<>>, <<>>).rows,
          order |-> [b \in 1..failing |-> (b - 1) * bs]]
    ELSE EncodeFrom(texts, bs, 0, failing, <<>>, <<>>)

\* Vectorizer.embed_texts(texts) with batch size bs; init: initialize() of a model
\* not loaded yet returns or raises.
embed_texts(texts, bs, init, failing) ==
    IF texts = <<>> THEN [ret |-> "returned", rows |-> <<>>, order |-> <<>>]
    ELSE IF init = "raise" THEN [ret |-> "VectorizationError", rows |-> <<>>, order |-> <<>>]
    ELSE EncodeFrom(texts, bs, 0, failing, <<>>, <<>>)

EmbedInputs ==
    {[op |-> "embed_texts", done |-> FALSE, texts |-> t, batch_size |-> bs,
      init |-> i, failing |-> f, ret |-> "", rows |-> <<>>, order |-> <<>>] :
        t \in PassageTexts, bs \in 1..MaxBatch, i \in {"ok", "raise"}, f \in 0..MaxTexts}

EmbedTexts ==
    /\ fn.op = "embed_texts" /\ ~fn.done
    /\ \E r \in {embed_texts(fn.texts, fn.batch_size, fn.init, fn.failing)} :
          fn' = [fn EXCEPT !.done = TRUE, !.ret = r.ret, !.rows = r.rows, !.order = r.order]
    /\ UNCHANGED <<index, metadata, disk, lastOp, snap, call, obs>>

\* The names bound at module level in knowledge_base.py: its imports and its
\* two classes.
ModuleNames ==
    {"os", "time", "uuid", "List", "Dict", "Any", "Optional", "datetime",
     "DocumentProcessor", "ChineseSemanticSplitter", "Vectorizer", "FAISSVectorStore",
     "config", "KnowledgeBaseBuilder", "DocumentUploadManager"}

\* Original file names: a stem, clean or holding a character outside [\w\-\.],
\* and an extension.
UploadNames ==
    {[stem |-> st, ext |-> e] : st \in {"doc", "my doc"}, e \in {".txt", ".pdf"}}
\* int(time.time()) and str(uuid.uuid4())[:8] at the time of the call.
UploadTimes == {1, 2}
UploadIds == {"u1", "u2"}
UploadContents == {"bytes1", "bytes2"}

\* re.sub(r'[^\w\-\.]', '_', name)
CleanName(stem) == IF stem = "my doc" THEN "my_doc" ELSE stem

\* DocumentUploadManager._generate_unique_filename(filename)
generate_unique_filename(filename, ts, uid) ==
    IF "re" \notin ModuleNames
    THEN [ret |-> "NameError", name |-> <<>>]
    ELSE [ret |-> "returned", name |-> <<CleanName(filename.stem), ts, uid, filename.ext>>]

\* The ingestion directory as found: empty, or holding an earlier upload.
UploadDirs == {{}, {[name |-> <<"doc", 1, "u1", ".txt">>, content |-> "bytes1"]}}

\* open(file_path, 'wb') and f.write(content): the file of that name is replaced.
WriteFile(files, name, content) ==
    {f \in files : f.name # name} \cup {[name |-> name, content |-> content]}

\* DocumentUploadManager.upload_document(file_obj, filename) on a manager with no
\* processed file yet; writable: whether open for writing succeeds.
upload_document(files, content, filename, ts, uid, writable) ==
    LET g == generate_unique_filename(filename, ts, uid) IN
    IF g.ret # "returned"
    THEN [success |-> FALSE, exc |-> g.ret, files |-> files, processed |-> {},
          filename |-> <<>>]
    ELSE IF ~writable
    THEN [success |-> FALSE, exc |-> "OSError", files |-> files, processed |-> {},
          filename |-> <<>>]
    ELSE [success |-> TRUE, exc |-> "none", files |-> WriteFile(files, g.name, content),
          processed |-> {g.name}, filename |-> g.name]

UploadInputs ==
    {[op |-> "upload_document", done |-> FALSE, dir |-> d, content |-> c, filename |-> n,
      ts |-> t, uid |-> u, writable |-> w, success |-> FALSE, exc |-> "none",
      files |-> d, processed |-> {}, stored |-> <<>>] :
        d \in UploadDirs, c \in UploadContents, n \in UploadNames, t \in UploadTimes,
        u \in UploadIds, w \in BOOLEAN}

UploadDocument ==
    /\ fn.op = "upload_document" /\ ~fn.done
    /\ \E r \in {upload_document(fn.dir, fn.content, fn.filename, fn.ts, fn.uid,
                                 fn.writable)} :
          fn' = [fn EXCEPT !.done = TRUE, !.success = r.success, !.exc = r.exc,
                           !.files = r.files, !.processed = r.processed,
                           !.stored = r.filename]
    /\ UNCHANGED <<index, metadata, disk, lastOp, snap, call, obs>>

NextFn ==
    \/ LoadAllDocuments
    \/ SplitDocuments
    \/ WeightedLength
    \/ EmbedTexts
    \/ UploadDocument

InitFn ==
    /\ index = NoIndex
    /\ metadata = <<>>
    /\ disk = EmptyDir
    /\ lastOp = Op("init", "", 0, 0, NoK, "None", NoResults, NoStats)
    /\ snap = NoSnap
    /\ call = NoCall
    /\ obs = NoObs
    /\ fn \in LoadInputs \cup SplitInputs \cup LengthInputs \cup EmbedInputs
             \cup UploadInputs

SpecFn == InitFn /\ [][NextFn]_vars

\* ---------------------------------------------------------------------------
\* KnowledgeBaseBuilder: build_knowledge_base, search, get_stats over its own
\* FAISSVectorStore (default index name).
\* ---------------------------------------------------------------------------
\* What one build_knowledge_base call meets outside the store:
\*   discover  _load_all_documents raises / returns [] / returns documents
\*   split     split_documents raises / returns [] / returns nchunks passages
\*   embed     embed_texts raises / returns an empty array / returns one row per text
\*   b         the passages the ingestion directory holds at the time of the call
\*   gpu, buildFail, saveFail   as for the store calls
BuildEnv(discover, split, embed, b, nchunks, gpu, buildFail, saveFail) ==
    [discover |-> discover, split |-> split, embed |-> embed, b |-> b, nchunks |-> nchunks,
     gpu |-> gpu, buildFail |-> buildFail, saveFail |-> saveFail]

\* The orchestrator runs where an accelerator is present: offload works or raises.
KbGpuEnv == {"ok", "fail"}

\* Calls that end before build_index.
EarlyEnvs ==
    {BuildEnv(e[1], e[2], e[3], "A", 1, "fail", "none", "none") :
        e \in {<<"raise", "some", "ok">>, <<"none", "some", "ok">>,
               <<"some", "raise", "ok">>, <<"some", "none", "ok">>,
               <<"some", "some", "raise">>, <<"some", "some", "empty">>}}

\* Calls whose build_index raises: before the new index is assigned, or at the
\* add, where the batch and the accelerator decide the index left behind.
BuildFailEnvs ==
    {BuildEnv("some", "some", "ok", "A", 1, "fail", "create", "none")}
    \cup {BuildEnv("some", "some", "ok", b, 1, g, "add", "none") :
             b \in Batches, g \in KbGpuEnv}

\* Calls that reach save_index.
SaveEnvs ==
    {BuildEnv("some", "some", "ok", b, n, g, "none", sf) :
        b \in Batches, n \in 1..MaxVectors, g \in KbGpuEnv, sf \in SaveFailures}

BuildEnvs == EarlyEnvs \cup BuildFailEnvs \cup SaveEnvs

\* What a call of the orchestrator hands back: the store afterwards, whether the
\* call returned or let an exception out, and the returned dict.
KbOutcome(st, out, exc, success, message, keys, stats, stages) ==
    [index |-> st.index, metadata |-> st.metadata, disk |-> st.disk,
     out |-> out, exc |-> exc, success |-> success, message |-> message,
     keys |-> keys, stats |-> stats, results |-> NoResults, stages |-> stages]

\* return {'success': True, 'message': ..., 'stats': stats, 'time_elapsed': ...}
Succeeded(st, message, stages) ==
    KbOutcome(st, "returned", "none", TRUE, message,
              {"success", "message", "stats", "time_elapsed"}, get_index_stats(st), stages)

\* return {'success': False, 'message': ..., 'time_elapsed': ...} of an empty stage
Stopped(st, message, stages) ==
    KbOutcome(st, "returned", "none", FALSE, message,
              {"success", "message", "time_elapsed"}, NoStats, stages)

\* A handler that lets the exception out of the call.
Escaped(st, exc, stages) ==
    KbOutcome(st, "raised", exc, FALSE, "", {}, NoStats, stages)

\* except Exception as e: return {'success': False, 'message': ..., 'time_elapsed': ...}
Caught(st, exc, stages) ==
    KbOutcome(st, "returned", exc, FALSE, "exception",
              {"success", "message", "time_elapsed"}, NoStats, stages)

\* Steps 5 and 6 of build_knowledge_base: build_index, save_index, stats.
IndexStages(st, env, stages) ==
    LET b1 == build_index(st, env.b, env.nchunks, env.nchunks, env.gpu, "now", env.buildFail)
    IN  IF b1.ret = "IndexBuildError"
        THEN Caught(b1, "IndexBuildError", stages \o <<"build_index">>)
        ELSE LET s1 == save_index(b1, "None", env.saveFail)
             IN  IF s1.ret = "IndexSaveError"
                 THEN Caught(s1, "IndexSaveError", stages \o <<"build_index", "save_index">>)
                 ELSE Succeeded(s1, "built", stages \o <<"build_index", "save_index">>)

\* A pipeline that goes on to embed when split_documents returned no passages.
PipelineIgnoresEmptySplit(st, env, stages) ==
    IF env.discover = "raise"
    THEN Caught(st, "OSError", stages \o <<"discover">>)
    ELSE IF env.discover = "none"
    THEN Stopped(st, "no_documents", stages \o <<"discover">>)
    ELSE IF env.split = "raise"
    THEN Caught(st, "SplitError", stages \o <<"discover", "split">>)
    ELSE IF env.embed = "raise"
    THEN Caught(st, "VectorizationError", stages \o <<"discover", "split", "embed">>)
    ELSE IF env.embed = "empty"
    THEN Stopped(st, "embed_failed", stages \o <<"discover", "split", "embed">>)
    ELSE IndexStages(st, env, stages \o <<"discover", "split", "embed">>)

\* Steps 1 to 4 of build_knowledge_base, then the index stages.
Pipeline(st, env, stages) ==
    IF env.discover = "raise"
    THEN Caught(st, "OSError", stages \o <<"discover">>)
    ELSE IF env.discover = "none"
    THEN Stopped(st, "no_documents", stages \o <<"discover">>)
    ELSE IF env.split = "raise"
    THEN Caught(st, "SplitError", stages \o <<"discover", "split">>)
    ELSE IF env.split = "none"
    THEN Stopped(st, "split_failed", stages \o <<"discover", "split">>)
    ELSE IF env.embed = "raise"
    THEN Caught(st, "VectorizationError", stages \o <<"discover", "split", "embed">>)
    ELSE IF env.embed = "empty"
    THEN Stopped(st, "embed_failed", stages \o <<"discover", "split", "embed">>)
    ELSE IndexStages(st, env, stages \o <<"discover", "split", "embed">>)

\* A build that treats an index that fails to load like a missing one.
BuildRebuildsOnLoadError(s, rebuild, env) ==
    LET l == load_index(s, "None", env.gpu) IN
    IF rebuild THEN Pipeline(s, env, <<>>)
    ELSE IF l.ret = "True" THEN Succeeded(l, "loaded", <<"load_index">>)
    ELSE Pipeline(l, env, <<"load_index">>)

\* A build that never looks for an existing index.
BuildAlwaysRebuilds(s, rebuild, env) == Pipeline(s, env, <<>>)

\* KnowledgeBaseBuilder.build_knowledge_base(rebuild)
build_knowledge_base(s, rebuild, env) ==
    LET l == load_index(s, "None", env.gpu) IN
    IF rebuild THEN Pipeline(s, env, <<>>)
    ELSE IF l.ret = "True" THEN Succeeded(l, "loaded", <<"load_index">>)
    ELSE IF l.ret = "IndexLoadError" THEN Caught(l, "IndexLoadError", <<"load_index">>)
    ELSE Pipeline(l, env, <<"load_index">>)

\* A lazy load outside the try block of a caller: the store to go on with.
Resident(s, l) == IF s.index.present THEN s ELSE l

\* KnowledgeBaseBuilder.search(query, k).  embedq: embed_query returns or raises.
search(s, q, k, embedq, gpu) ==
    LET l == load_index(s, "None", gpu)
        st == Resident(s, l)
        stages == IF s.index.present THEN <<>> ELSE <<"load_index">>
        r == similarity_search(st, q, k)
    IN  IF ~s.index.present /\ l.ret = "False"
        THEN KbOutcome(l, "returned", "none", FALSE, "", {}, NoStats, stages)
        ELSE IF ~s.index.present /\ l.ret = "IndexLoadError"
        THEN KbOutcome(l, "raised", "IndexLoadError", FALSE, "", {}, NoStats, stages)
        ELSE IF embedq = "raise"
        THEN KbOutcome(st, "returned", "VectorizationError", FALSE, "", {}, NoStats,
                       stages \o <<"embed_query">>)
        ELSE IF r.ret # "results"
        THEN KbOutcome(st, "returned", r.ret, FALSE, "", {}, NoStats,
                       stages \o <<"embed_query", "similarity_search">>)
        ELSE [KbOutcome(st, "returned", "none", FALSE, "", {}, NoStats,
                        stages \o <<"embed_query", "similarity_search">>)
                 EXCEPT !.results = r.results]

\* KnowledgeBaseBuilder.get_stats()
get_stats(s, gpu) ==
    LET l == load_index(s, "None", gpu)
        st == Resident(s, l)
        stages == IF s.index.present THEN <<>> ELSE <<"load_index">>
    IN  IF ~s.index.present /\ l.ret = "False"
        THEN KbOutcome(l, "returned", "none", FALSE, "", {"status"},
                       [NoStats EXCEPT !.status = "uninitialized"], stages)
        ELSE IF ~s.index.present /\ l.ret = "IndexLoadError"
        THEN KbOutcome(l, "raised", "IndexLoadError", FALSE, "", {}, NoStats, stages)
        ELSE KbOutcome(st, "returned", "none", FALSE, "",
                       {"status", "total_vectors", "dimension", "metadata_count"},
                       get_index_stats(st), stages)

\* The artifact pair of a name as load_index would find it: a file absent, a file
\* that does not deserialize, or both loadable.
ArtifactState(d, nm) ==
    IF d[nm].idx.st = "absent" \/ d[nm].meta.st = "absent" THEN "absent"
    ELSE IF d[nm].idx.st = "corrupt" \/ d[nm].meta.st = "corrupt" THEN "corrupt"
    ELSE "valid"

\* The record of a call: what it was given, what it found, what it handed back,
\* whether it changed the artifact files, what the pipeline stages of a build
\* yielded (met), and whether the call before it was a reuse build.
MkCall(op, rebuild, k, r) ==
    [op |-> op, rebuild |-> rebuild, k |-> k, out |-> r.out, exc |-> r.exc,
     success |-> r.success, message |-> r.message, keys |-> r.keys, stats |-> r.stats,
     results |-> r.results, stages |-> r.stages,
     artifact |-> ArtifactState(disk, index_name), resident |-> index.present,
     wrote |-> r.disk # disk, met |-> NoCall.met,
     prev |-> IF call.op = "build" /\ ~call.rebuild /\ call.artifact = "valid"
              THEN [reuse |-> TRUE, stats |-> call.stats]
              ELSE [reuse |-> FALSE, stats |-> NoStats]]

Build ==
    \E rebuild \in BOOLEAN, env \in BuildEnvs :
        \E r \in {build_knowledge_base(Store, rebuild, env)} :
        /\ Becomes(r)
        /\ call' = [MkCall("build", rebuild, NoK, r) EXCEPT
                        !.met = IF \E i \in 1..Len(r.stages) : r.stages[i] = "discover"
                                THEN [discover |-> env.discover, split |-> env.split,
                                      embed |-> env.embed]
                                ELSE @]
        /\ UNCHANGED <<lastOp, snap, obs, fn>>

\* embed_query of the query text: one vector per embedding dimension in use.
KbQueries == {q \in Queries : q.sign = 1}

\* What one search call is given and meets: the query, k, whether embed_query
\* raises, and the accelerator.
SearchEnvs ==
    {[q |-> q, k |-> k, embedq |-> "ok", gpu |-> g] :
        q \in KbQueries, k \in KArgs, g \in KbGpuEnv}
    \cup {[q |-> q, k |-> NoK, embedq |-> "raise", gpu |-> "fail"] : q \in KbQueries}

Search ==
    \E e \in SearchEnvs :
        \E r \in {search(Store, e.q, e.k, e.embedq, e.gpu)}, k \in {e.k} :
        /\ Becomes(r)
        /\ call' = MkCall("search", FALSE, k, r)
        /\ UNCHANGED <<lastOp, snap, obs, fn>>

GetStats ==
    \E gpu \in KbGpuEnv :
        \E r \in {get_stats(Store, gpu)} :
        /\ Becomes(r)
        /\ call' = MkCall("get_stats", FALSE, NoK, r)
        /\ UNCHANGED <<lastOp, snap, obs, fn>>

\* KnowledgeBaseBuilder.__init__ in a new process: a fresh store, the files stay.
NewBuilder ==
    /\ index' = NoIndex
    /\ metadata' = <<>>
    /\ call' = NoCall
    /\ UNCHANGED <<disk, lastOp, snap, obs, fn>>

NextKB ==
    \/ Build
    \/ Search
    \/ GetStats
    \/ NewBuilder

SpecKB == Init /\ [][NextKB]_vars

\* ---------------------------------------------------------------------------
\* Claims
\* ---------------------------------------------------------------------------

\* C1: whenever the index is present, the metadata sequence is as long as the
\* index has vectors and position i of both refers to the same passage.
C1_Aligned ==
    index.present =>
        /\ Len(metadata) = Len(index.vecs)
        /\ \A i \in 1..Len(index.vecs) :
              /\ metadata[i].src = index.vecs[i].src
              /\ metadata[i].pos = index.vecs[i].pos

\* C2: build_index with a row count different from the number of metadata
\* entries, or with an empty batch, ends with IndexBuildError.
C2_BadBatchRejected ==
    (lastOp.op = "build_index" /\ (lastOp.n # lastOp.m \/ lastOp.n = 0))
        => lastOp.ret = "IndexBuildError"

\* C3: a load_index of a name whose last save_index succeeded returns true and
\* yields the vector count, dimension and metadata sequence that were saved.
C3_RoundTrip ==
    (lastOp.op = "load_index" /\ snap.valid /\ snap.name = lastOp.name) =>
        /\ lastOp.ret = "True"
        /\ Len(index.vecs) = Len(snap.index.vecs)
        /\ index.d = snap.index.d
        /\ metadata = snap.metadata

\* C3 witness: an explicitly named, non-empty index saved from the accelerator
\* and loaded by a fresh store.
C3_Witness ==
    /\ lastOp.op = "load_index" /\ lastOp.ret = "True" /\ lastOp.name = "kb"
    /\ snap.valid /\ snap.name = "kb" /\ snap.index.device = "gpu"
    /\ Len(snap.metadata) = MaxVectors
    /\ disk[index_name].idx.st = "data" /\ disk[index_name].idx # disk["kb"].idx

\* C4: every result of similarity_search carries the metadata entry inserted
\* together with the vector of that result's row.
C4_ResultsCarryOwnMetadata ==
    (lastOp.op = "similarity_search" /\ lastOp.ret = "results") =>
        \A j \in 1..Len(lastOp.results) :
            LET r == lastOp.results[j] IN
            /\ r.metadata.src = index.vecs[r.row + 1].src
            /\ r.metadata.pos = r.row + 1

\* C5: similarity_search(query, k) returns at most k results for every
\* explicit k, k = 0 included.
C5_AtMostK ==
    (lastOp.op = "similarity_search" /\ lastOp.ret = "results" /\ lastOp.k.given)
        => Len(lastOp.results) <= lastOp.k.val

\* C6: load_index returns false when an artifact file of the name is absent,
\* and raises only when both files exist and one of them does not deserialize.
C6_LoadMissingIsFalse ==
    lastOp.op = "load_index" =>
        LET f == disk[IF lastOp.name \in DefaultNameArgs THEN index_name ELSE lastOp.name] IN
        /\ (f.idx.st = "absent" \/ f.meta.st = "absent") => lastOp.ret = "False"
        /\ lastOp.ret = "IndexLoadError" =>
              /\ f.idx.st # "absent" /\ f.meta.st # "absent"
              /\ (f.idx.st = "corrupt" \/ f.meta.st = "corrupt")

\* C6 witness: only the metadata file exists, a store holding a built index
\* called load_index, and it returned false.
C6_Witness ==
    /\ lastOp.op = "load_index" /\ lastOp.ret = "False"
    /\ lastOp.name = "None"
    /\ disk[index_name].idx.st = "absent" /\ disk[index_name].meta.st = "data"
    /\ index.present
\* Whether a stage was run during the call.
Ran(stage) == \E i \in 1..Len(call.stages) : call.stages[i] = stage

\* C7: search on the orchestrator never raises; when a step of it fails it
\* returns an empty result sequence.
C7_SearchNeverRaises ==
    call.op = "search" =>
        /\ call.out = "returned"
        /\ call.exc # "none" => call.results = <<>>

\* C8: build_knowledge_base never lets an exception out; an exception raised
\* in any stage ends the call with success = false, a message and elapsed time.
C8_BuildCatchesAll ==
    call.op = "build" =>
        /\ call.out = "returned"
        /\ call.exc # "none" =>
              /\ ~call.success
              /\ {"success", "message", "time_elapsed"} \subseteq call.keys

\* C8 witness: a build whose save_index raised after build_index succeeded.
C8_Witness ==
    /\ call.op = "build" /\ call.exc = "IndexSaveError"
    /\ Ran("build_index") /\ index.present

\* C9 as claimed: build(rebuild=false) reuses only an index that loads, and
\* runs the pipeline in every other case, a failing load included.
C9_PipelineUnlessLoaded ==
    (call.op = "build" /\ ~call.rebuild) =>
        /\ call.message = "loaded" => call.artifact = "valid"
        /\ call.artifact # "valid" => Ran("discover")

\* C9 amended: build(rebuild=false) reuses exactly an index that loads; when a
\* file is absent it goes on to file discovery; when both files exist and the
\* load raises it returns a failure result without running a pipeline stage.
C9_ReuseOrPipelineOrFailure ==
    (call.op = "build" /\ ~call.rebuild) =>
        /\ call.message = "loaded" <=> call.artifact = "valid"
        /\ call.artifact = "valid" => call.stages = <<"load_index">>
        /\ call.artifact = "absent" =>
              /\ Len(call.stages) >= 2
              /\ call.stages[1] = "load_index" /\ call.stages[2] = "discover"
        /\ call.artifact = "corrupt" =>
              /\ call.stages = <<"load_index">>
              /\ call.out = "returned" /\ ~call.success
              /\ call.exc = "IndexLoadError"

\* C9 witness: a build(rebuild=false) that met an artifact that does not load.
C9_Witness ==
    /\ call.op = "build" /\ ~call.rebuild /\ call.artifact = "corrupt"
    /\ call.exc = "IndexLoadError"

Written == [idx |-> WriteIndex(index), meta |-> DumpMeta(metadata)]

\* C11: the artifact is never partially written: a save_index call that changes
\* a file of a name, whether it returns or raises, leaves both files of the name
\* as that call wrote them.
C11_FilesWrittenTogether ==
    [][lastOp'.op = "save_index" =>
          (disk'[SaveName(lastOp'.name)] # disk[SaveName(lastOp'.name)] =>
              disk'[SaveName(lastOp'.name)] = Written)]_vars

\* C12: a save_index on a present index that returns has written both files from
\* the resident index and metadata; when a write fails it raises IndexSaveError.
C12_SaveWritesBothOrRaises ==
    (lastOp.op = "save_index" /\ index.present) =>
        /\ lastOp.ret \in {"True", "IndexSaveError"}
        /\ lastOp.ret = "True" => disk[SaveName(lastOp.name)] = Written
        /\ obs.fail # "none" => lastOp.ret = "IndexSaveError"

\* C12 witness: a save of a full-size index that returned True.
C12_Witness ==
    /\ lastOp.op = "save_index" /\ lastOp.ret = "True"
    /\ Len(index.vecs) = MaxVectors /\ obs.fail = "none"

\* C13: similarity_search raises the invalid-state error and returns nothing on
\* a store on which no build_index or load_index has succeeded, and returns
\* results on a store that was built or loaded.
C13_SearchNeedsReadyStore ==
    lastOp.op = "similarity_search" =>
        /\ ~obs.ready => (lastOp.ret = "ValueError" /\ lastOp.results = NoResults)
        /\ obs.ready => lastOp.ret = "results"
\* C14: get_stats returns a structured outcome with a status and lets no
\* exception out, also when the artifact on disk fails to load.
C14_GetStatsReturnsOutcome ==
    call.op = "get_stats" => (call.out = "returned" /\ "status" \in call.keys)

\* The stages of a build after the reuse attempt.
PipelineStages ==
    IF call.stages # <<>> /\ call.stages[1] = "load_index"
    THEN SubSeq(call.stages, 2, Len(call.stages)) ELSE call.stages

\* The order of the stages on the non-reuse path.
StageOrder == <<"discover", "split", "embed", "build_index", "save_index">>
\* C16: on the non-reuse path build runs discover, split, embed, build_index,
\* save_index in that order; it stops at the first stage that yields nothing,
\* with that stage's own failure message and no later stage run; it reports
\* success only after build_index and save_index have both completed.
C16_StagesInOrder ==
    (call.op = "build" /\ Ran("discover")) =>
        /\ Len(PipelineStages) <= Len(StageOrder)
        /\ PipelineStages = SubSeq(StageOrder, 1, Len(PipelineStages))
        /\ call.met.discover = "none" =>
              /\ PipelineStages = <<"discover">>
              /\ ~call.success /\ call.message = "no_documents"
        /\ (call.met.discover = "some" /\ call.met.split = "none") =>
              /\ PipelineStages = <<"discover", "split">>
              /\ ~call.success /\ call.message = "split_failed"
        /\ (call.met.discover = "some" /\ call.met.split = "some"
                /\ call.met.embed = "empty") =>
              /\ PipelineStages = <<"discover", "split", "embed">>
              /\ ~call.success /\ call.message = "embed_failed"
        /\ call.success => (PipelineStages = StageOrder /\ call.exc = "none")

\* C16 witness: a build stopped by a split_documents that returned no passages.
C16_Witness ==
    /\ call.op = "build" /\ call.met.discover = "some" /\ call.met.split = "none"
    /\ call.message = "split_failed"
\* C15: when the offload to the accelerator fails, build_index and load_index
\* complete on the general-purpose device with the vectors and metadata they
\* would have had; an error of such a call has another cause than the offload.
C15_OffloadFailureIsHarmless ==
    obs.gpu = "fail" =>
        /\ (lastOp.op = "build_index" /\ lastOp.n > 0 /\ obs.fail = "none") =>
              /\ lastOp.ret = "True" /\ index.device = "cpu"
              /\ index.vecs = Embeddings("A", lastOp.n)
              /\ metadata = Stamp(Metadatas("A", lastOp.m), "now")
        /\ (lastOp.op = "build_index" /\ lastOp.ret = "IndexBuildError") =>
              obs.fail # "none"
        /\ (lastOp.op = "load_index"
                /\ ArtifactState(disk, LoadName(lastOp.name)) = "valid") =>
              /\ lastOp.ret = "True"
              /\ index = ReadIndex(disk[LoadName(lastOp.name)].idx)
              /\ metadata = LoadMeta(disk[LoadName(lastOp.name)].meta)
        /\ (lastOp.op = "load_index" /\ lastOp.ret = "IndexLoadError") =>
              ArtifactState(disk, LoadName(lastOp.name)) = "corrupt"

\* C15 witness: a load of a full-size artifact during which the offload failed.
C15_Witness ==
    /\ lastOp.op = "load_index" /\ obs.gpu = "fail" /\ lastOp.ret = "True"
    /\ Len(index.vecs) = MaxVectors /\ Len(metadata) = MaxVectors
\* The records of every entry of a listing that is supported, small enough and
\* loadable, in listing order.
RECURSIVE EligibleRecords(_, _)
EligibleRecords(listing, i) ==
    IF i > Len(listing) THEN <<>>
    ELSE Records(i, listing[i]) \o EligibleRecords(listing, i + 1)

\* C17: file discovery skips the entries it cannot take without aborting the
\* batch: it returns the records of the eligible entries, in listing order.
C17_SkipsWithoutAborting ==
    (fn.op = "load_all_documents" /\ fn.done /\ fn.exists) =>
        /\ fn.ret = "returned"
        /\ fn.docs = EligibleRecords(fn.listing, 1)

\* C18: every passage has 0 <= chunk_index < total_chunks, total_chunks is the
\* number of passages of its parent record, and chunk_index is its 0-based
\* position within its parent's split.
C18_ChunkPositionsPerParent ==
    (fn.op = "split_documents" /\ fn.done) =>
        \A i \in 1..Len(fn.chunks) :
            /\ 0 <= fn.chunks[i].chunk_index
            /\ fn.chunks[i].chunk_index < fn.chunks[i].total_chunks
            /\ fn.chunks[i].total_chunks =
                  Cardinality({j \in 1..Len(fn.chunks) :
                                  fn.chunks[j].parent = fn.chunks[i].parent})
            /\ fn.chunks[i].chunk_index = fn.chunks[i].piece - 1

\* A text made of characters of one class only.
Pure(text, c) == \A i \in 1..Len(text) : text[i] = c

\* C19 as claimed: the length of a concatenation of two pure-CJK texts, or of two
\* pure-Latin texts, is the sum of their lengths.
C19_AdditiveSameScript ==
    (fn.op = "weighted_length" /\ fn.done
        /\ \/ Pure(fn.a, "cjk") /\ Pure(fn.b, "cjk")
           \/ Pure(fn.a, "latin") /\ Pure(fn.b, "latin")) =>
        fn.lab = fn.la + fn.lb

\* C19 amended: the length is additive for two pure-CJK texts; for two pure-Latin
\* texts it is the sum of the lengths, less one when both have an odd number of
\* letters.
C19_AdditiveUpToOddLetters ==
    (fn.op = "weighted_length" /\ fn.done) =>
        /\ (Pure(fn.a, "cjk") /\ Pure(fn.b, "cjk")) => fn.lab = fn.la + fn.lb
        /\ (Pure(fn.a, "latin") /\ Pure(fn.b, "latin")) =>
              fn.lab = fn.la + fn.lb
                       - (IF Len(fn.a) % 2 = 1 /\ Len(fn.b) % 2 = 1 THEN 1 ELSE 0)

\* C19 witness: two pure-Latin texts with an odd number of letters each.
C19_Witness ==
    /\ fn.op = "weighted_length" /\ fn.done
    /\ Pure(fn.a, "latin") /\ Pure(fn.b, "latin")
    /\ Len(fn.a) % 2 = 1 /\ Len(fn.b) % 2 = 1 /\ Len(fn.a) + Len(fn.b) > 2

\* The text without its characters of class c.
Without(text, c) == SelectSeq(text, LAMBDA ch : ch # c)

\* C20: a pure-CJK text of N characters has length N, a pure-Latin text of N
\* letters has length ceil(N/2); whitespace adds nothing to a text's length and
\* every other character that is neither CJK nor Latin adds 1.
C20_LengthByClass ==
    (fn.op = "weighted_length" /\ fn.done) =>
        /\ Pure(fn.a, "cjk") => fn.la = Len(fn.a)
        /\ Pure(fn.a, "latin") => (2 * fn.la >= Len(fn.a) /\ 2 * fn.la <= Len(fn.a) + 1)
        /\ fn.la = chinese_aware_length(Without(fn.a, "space"))
        /\ fn.la = chinese_aware_length(Without(fn.a, "other")) + Count(fn.a, "other")

\* C20 witness: a text of the longest size mixing letters, whitespace and
\* another character.
C20_Witness ==
    /\ fn.op = "weighted_length" /\ fn.done /\ Len(fn.a) = MaxLen
    /\ Count(fn.a, "latin") >= 1 /\ Count(fn.a, "space") >= 1 /\ Count(fn.a, "other") >= 1
\* The number of batches embed_texts cuts the texts of fn into.
NumBatches == ((Len(fn.texts) - 1) \div fn.batch_size) + 1

\* C21: for a non-empty sequence of texts and a batch size >= 1, embed_texts
\* visits the batches in increasing order and returns one row per text, row i
\* being the embedding of text i; a failing batch ends the call with the
\* embedding error and no rows.
C21_OneRowPerTextInOrder ==
    (fn.op = "embed_texts" /\ fn.done /\ fn.texts # <<>>) =>
        /\ fn.ret \in {"returned", "VectorizationError"}
        /\ (fn.init = "raise" \/ fn.failing \in 1..NumBatches)
              <=> fn.ret = "VectorizationError"
        /\ fn.ret = "VectorizationError" => fn.rows = <<>>
        /\ fn.ret = "returned" =>
              /\ Len(fn.rows) = Len(fn.texts)
              /\ \A i \in 1..Len(fn.texts) : fn.rows[i] = Encode(fn.texts[i])
              /\ fn.order = [b \in 1..NumBatches |-> (b - 1) * fn.batch_size]
        /\ \A b \in 1..(Len(fn.order) - 1) : fn.order[b] < fn.order[b + 1]

\* C21 witness: the most texts, cut into more than one batch, all embedded.
C21_Witness ==
    /\ fn.op = "embed_texts" /\ fn.done /\ fn.ret = "returned"
    /\ Len(fn.texts) = MaxTexts /\ NumBatches > 1
    /\ fn.texts[1] # fn.texts[MaxTexts]
\* C22: upload_document, given bytes and a writable ingestion directory, returns
\* success, has written the bytes to a file of the name it returns, which the
\* listing of the directory (what a later build discovers) then holds, and has
\* recorded the name in processed_files.
C22_UploadStoresFile ==
    (fn.op = "upload_document" /\ fn.done /\ fn.writable) =>
        /\ fn.success
        /\ [name |-> fn.stored, content |-> fn.content] \in fn.files
        /\ fn.stored \in fn.processed
\* C23: get_index_stats and similarity_search change neither the index, nor the
\* metadata, nor the artifact files; get_index_stats reports the uninitialized
\* status exactly when no index is present and the ready status otherwise.
C23_ReadsChangeNothing ==
    [][lastOp'.op \in {"similarity_search", "get_index_stats"} =>
          /\ UNCHANGED <<index, metadata, disk>>
          /\ lastOp'.op = "get_index_stats" =>
                lastOp'.stats.status = (IF index.present THEN "ready" ELSE "uninitialized")]_vars

\* C23 witness: stats asked of a store with no index while an artifact is on disk.
C23_Witness ==
    /\ lastOp.op = "get_index_stats" /\ ~index.present
    /\ disk[index_name].idx.st = "data" /\ disk[index_name].meta.st = "data"

\* C24: a load_index that returns False or raises leaves the index and the
\* metadata as they were before the call.
C24_FailedLoadKeepsMemory ==
    [][(lastOp'.op = "load_index" /\ lastOp'.ret # "True") =>
          UNCHANGED <<index, metadata>>]_vars

\* C26: a store that was built or loaded keeps an index through every later
\* call; save_index on a store that was never built or loaded returns False
\* and writes neither file.
C26_ReadyForGood ==
    [][lastOp'.op # "init" =>
          /\ obs.ready => (obs'.ready /\ index'.present)
          /\ (lastOp'.op = "save_index" /\ ~obs.ready) =>
                (lastOp'.ret = "False" /\ disk' = disk)]_vars
\* C25: a build_knowledge_base call that returns success = false leaves the
\* index, the metadata and the artifact files as they were before the call,
\* whatever the stage that failed.
C25_FailedBuildChangesNothing ==
    [][(call'.op = "build" /\ call'.out = "returned" /\ ~call'.success) =>
          UNCHANGED <<index, metadata, disk>>]_vars
====
